---------------------------- MODULE Spec2Model ----------------------------
(***************************************************************************)
(* A model of the LST screener (src/lst_screener_api.py): the /api/lst/screen *)
(* handler lst_screen, screen_stock_for_lst, get_stock_iv and               *)
(* find_lst_put_opportunities, with the Tradier upstream as the environment. *)
(*                                                                         *)
(* Numbers are fixed point.  Money (last, strike, bid, ask and what is     *)
(* derived from them) is in cents, a percentage is in hundredths of a      *)
(* percent, a delta and a mid_iv are in 1/10000, volume is in shares and   *)
(* volume_millions in hundredths of a million.  round(x, n) is computed    *)
(* on the exact quotient with ties to even; the binary representation      *)
(* error of a Python float is outside the model, and every formula about a *)
(* rounded field is stated so that it holds for either choice at a tie.    *)
(*                                                                         *)
(* An expiration date is identified with the whole-day difference          *)
(* (exp_date - datetime.now()).days that the code computes from it.        *)
(* Every upstream HTTP round trip is one step; its response is chosen by   *)
(* the environment from the set the action is given.                       *)
(***************************************************************************)
EXTENDS Integers, Sequences, FiniteSets, TLC

VARIABLES
    pc,                  \* where the handler is: idle, quote, iv_exps, iv_chain, find_exps, find_chain, done
    request,             \* the HTTP request being served (NoRequest before one arrives)
    tickers_to_screen,   \* lst_screen: the resolved ticker list
    idx,                 \* lst_screen: position of the ticker being screened (1-based)
    results,             \* lst_screen: the results list
    qualified_count,     \* lst_screen: qualified_count
    response,            \* the HTTP response, <<>> until the handler returns
    quote,               \* screen_stock_for_lst: the quote obtained, <<>> when none
    iv,                  \* screen_stock_for_lst: iv, <<>> for None, <<v>> for a value
    iv_status,           \* screen_stock_for_lst: iv_status
    iv_qualified,        \* screen_stock_for_lst: iv_qualified
    opportunities,       \* screen_stock_for_lst: what find_lst_put_opportunities returned
    expirations,         \* get_stock_iv / find_lst_put_opportunities: the expirations list
    closest_exp,         \* get_stock_iv: closest_exp, <<>> for None
    suitable_expirations,\* find_lst_put_opportunities: suitable_expirations
    fetched,             \* find_lst_put_opportunities: how many of suitable_expirations[:2] were fetched
    collected,           \* find_lst_put_opportunities: its local opportunities list, before the sort
    reqlog               \* every upstream request issued so far, in order, with its outcome

vars == <<pc, request, tickers_to_screen, idx, results, qualified_count, response,
          quote, iv, iv_status, iv_qualified, opportunities, expirations,
          closest_exp, suitable_expirations, fetched, collected, reqlog>>

-----------------------------------------------------------------------------
(* Program constants, in the model's units. *)

\* price < 50 or price > 200 (cents)
MinPrice == 5000
MaxPrice == 20000
\* volume_millions < 10, volume_millions = volume / 1_000_000 (shares)
MinVolume == 10000000
\* iv < 25, iv > 45 (hundredths of a percent)
MinIV == 2500
MaxIV == 4500
\* 0.20 <= delta <= 0.30 (1/10000)
MinDelta == 2000
MaxDelta == 3000
\* 30 <= days_to_exp <= 45
MinDTE == 30
MaxDTE == 45
\* abs(days_diff - 37)
MidDTE == 37
\* 0.05 <= mid_iv <= 2.0 (1/10000)
MinMidIV == 500
MaxMidIV == 20000
\* suitable_expirations[:2]
MaxFetch == 2
\* opportunities[:5]
TopN == 5
\* LST_STOCK_UNIVERSE["consumer_staples"][:10]
DefaultN == 10

-----------------------------------------------------------------------------
(* Python values. *)

None == <<>>
Some(v) == <<v>>
IsNone(o) == o = <<>>
Val(o) == o[1]

Abs(x) == IF x < 0 THEN -x ELSE x

\* RoundDiv truncating instead of rounding
RoundDiv_Truncated(n, d) == n \div d

\* round(n / d) for d > 0, ties to even; \div and % are floor division and its remainder
RoundDiv(n, d) ==
    LET q == n \div d
        r == n % d
    IN  IF 2 * r < d THEN q
        ELSE IF 2 * r > d THEN q + 1
        ELSE IF q % 2 = 0 THEN q ELSE q + 1

\* Take without the bound
Take_All(s, n) == s

\* s[:n]
Take(s, n) == IF Len(s) <= n THEN s ELSE SubSeq(s, 1, n)

\* the sequences over S of length at most n
SeqsUpTo(S, n) == UNION {[1..k -> S] : k \in 0..n}


-----------------------------------------------------------------------------
(* Upstream payloads.                                                      *)
(*                                                                         *)
(* A JSON field is None when the key is missing, Some(n) when it holds the *)
(* number n, and Unparsable when float() raises on what it holds (null).   *)
(* A contract is [option_type, greeks, strike, bid, ask, open_interest];   *)
(* greeks is None (missing or empty) or Some([delta, mid_iv]).             *)
(* A quote response is Fail, NoQuote (no "quotes"/"quote" field) or Quote.  *)
(* A chain response is Fail (transport error, non-2xx, malformed JSON),    *)
(* NoOptions (no "options"/"option" field), ListOf(s) or SingleOf(c) (the  *)
(* scalar object the upstream sends for exactly one contract).  A quote or *)
(* expirations response is Fail or the payload.                            *)

Unparsable == <<0, 0>>
IsNum(f) == Len(f) = 1

Fail == [kind |-> "fail"]
NoOptions == [kind |-> "no_options"]
ListOf(s) == [kind |-> "list", option |-> s]
SingleOf(c) == [kind |-> "single", option |-> c]
Dates(s) == [kind |-> "dates", date |-> s]
Quote(last, volume) == [kind |-> "quote", last |-> last, volume |-> volume]
NoQuote == [kind |-> "no_quote"]

Put(delta, mid_iv, strike, bid, ask) ==
    [option_type |-> "put", greeks |-> Some([delta |-> delta, mid_iv |-> mid_iv]),
     strike |-> strike, bid |-> bid, ask |-> ask, open_interest |-> 500]
Call(delta, mid_iv, strike, bid, ask) ==
    [option_type |-> "call", greeks |-> Some([delta |-> delta, mid_iv |-> mid_iv]),
     strike |-> strike, bid |-> bid, ask |-> ask, open_interest |-> 500]
NoGreeks(c) == [c EXCEPT !.greeks = None]

\* dict.get(key, 0) followed by float(): [ok, v]
Float(f) ==
    IF IsNone(f) THEN [ok |-> TRUE, v |-> 0]
    ELSE IF IsNum(f) THEN [ok |-> TRUE, v |-> Val(f)]
    ELSE [ok |-> FALSE, v |-> 0]

-----------------------------------------------------------------------------
(* find_lst_put_opportunities: one contract, one chain. *)

\* the dict appended for one put in the delta band.  "contract" is no key of the
\* dict: it records the upstream contract the dict was computed from
Opportunity(exp, price, delta, strike, bid, ask, put) ==
    LET capital_at_risk == strike * 100
        premium_collected == (bid + ask) * 50
        greeks == Val(put.greeks)
    IN  [expiration |-> exp,
         dte |-> exp,
         strike |-> strike,
         delta |-> RoundDiv(delta, 10),
         bid |-> bid,
         ask |-> ask,
         mid_price |-> RoundDiv(bid + ask, 2),
         premium_per_contract |-> premium_collected,
         capital_at_risk |-> capital_at_risk,
         return_pct |-> IF capital_at_risk > 0
                          THEN RoundDiv(premium_collected * 10000, capital_at_risk)
                          ELSE 0,
         distance_from_price_pct |-> RoundDiv((price - strike) * 10000, price),
         open_interest |-> put.open_interest,
         bid_ask_spread |-> ask - bid,
         implied_volatility |-> Float(greeks.mid_iv).v,
         contract |-> put]

\* the body of "for put in puts": [ok, opps]; ok = FALSE when it raises
ProcessPut(put, exp, price) ==
    IF IsNone(put.greeks) \/ IsNone(Val(put.greeks).delta)
    THEN [ok |-> TRUE, opps |-> <<>>]
    ELSE LET d == Float(Val(put.greeks).delta)
             s == Float(put.strike)
             b == Float(put.bid)
             a == Float(put.ask)
             delta == Abs(d.v)
         IN  IF ~(d.ok /\ s.ok /\ b.ok /\ a.ok)
             THEN [ok |-> FALSE, opps |-> <<>>]
             ELSE IF MinDelta <= delta /\ delta <= MaxDelta
             THEN IF price = 0 \/ ~Float(Val(put.greeks).mid_iv).ok
                  THEN [ok |-> FALSE, opps |-> <<>>]
                  ELSE [ok |-> TRUE,
                        opps |-> <<Opportunity(exp, price, delta, s.v, b.v, a.v, put)>>]
             ELSE [ok |-> TRUE, opps |-> <<>>]

\* PutsOf without the option_type filter
PutsOf_Unfiltered(options) == options

\* puts = [opt for opt in options if opt.get("option_type") == "put"]
RECURSIVE PutsOf(_)
PutsOf(options) ==
    IF options = <<>> THEN <<>>
    ELSE (IF Head(options).option_type = "put" THEN <<Head(options)>> ELSE <<>>)
         \o PutsOf(Tail(options))

\* "for put in puts": stops at the first put that raises
RECURSIVE ProcessPuts(_, _, _)
ProcessPuts(puts, exp, price) ==
    IF puts = <<>> THEN [ok |-> TRUE, opps |-> <<>>]
    ELSE LET first == ProcessPut(Head(puts), exp, price)
         IN  IF ~first.ok THEN first
             ELSE LET rest == ProcessPuts(Tail(puts), exp, price)
                  IN  [ok |-> rest.ok, opps |-> first.opps \o rest.opps]

\* options = data["options"]["option"]; if not isinstance(options, list): options = [options]
OptionsOf(resp) == IF resp.kind = "single" THEN <<resp.option>> ELSE resp.option

\* opportunities.sort(key=lambda x: x["return_pct"], reverse=True): stable,
\* equal keys keep their order
RECURSIVE InsertByReturn(_, _)
InsertByReturn(sorted, o) ==
    IF sorted = <<>> THEN <<o>>
    ELSE IF Head(sorted).return_pct >= o.return_pct
         THEN <<Head(sorted)>> \o InsertByReturn(Tail(sorted), o)
         ELSE <<o>> \o sorted

\* SortByReturn sorting each expiration's opportunities on their own
SortByReturn_Unsorted(s) == s

RECURSIVE SortByReturn(_)
SortByReturn(s) ==
    IF s = <<>> THEN <<>>
    ELSE InsertByReturn(SortByReturn(SubSeq(s, 1, Len(s) - 1)), s[Len(s)])

\* suitable_expirations: the dates of the list with 30 <= days_to_exp <= 45, in order
RECURSIVE SuitableOf(_)
SuitableOf(exps) ==
    IF exps = <<>> THEN <<>>
    ELSE (IF MinDTE <= Head(exps) /\ Head(exps) <= MaxDTE THEN <<Head(exps)>> ELSE <<>>)
         \o SuitableOf(Tail(exps))

-----------------------------------------------------------------------------
(* get_stock_iv: the expiration it picks, the average it returns. *)

\* the loop over expirations: closest_exp (None or Some(date)) and min_diff
\* (None stands for float('inf')); "diff < min_diff" keeps the first on a tie
\* ClosestFrom with "diff <= min_diff": the last on a tie
RECURSIVE ClosestFrom_LastOnTie(_, _, _)
ClosestFrom_LastOnTie(exps, closest, min_diff) ==
    IF exps = <<>> THEN closest
    ELSE LET days_diff == Head(exps)
             diff == Abs(days_diff - MidDTE)
         IN  IF MinDTE <= days_diff /\ days_diff <= MaxDTE
                /\ (IsNone(min_diff) \/ diff <= Val(min_diff))
             THEN ClosestFrom_LastOnTie(Tail(exps), Some(days_diff), Some(diff))
             ELSE ClosestFrom_LastOnTie(Tail(exps), closest, min_diff)

RECURSIVE ClosestFrom(_, _, _)
ClosestFrom(exps, closest, min_diff) ==
    IF exps = <<>> THEN closest
    ELSE LET days_diff == Head(exps)
             diff == Abs(days_diff - MidDTE)
         IN  IF MinDTE <= days_diff /\ days_diff <= MaxDTE
                /\ (IsNone(min_diff) \/ diff < Val(min_diff))
             THEN ClosestFrom(Tail(exps), Some(days_diff), Some(diff))
             ELSE ClosestFrom(Tail(exps), closest, min_diff)

ClosestExp(exps) == ClosestFrom(exps, None, None)

\* "for put in puts" of get_stock_iv: [ok, vals], vals the iv_values collected
RECURSIVE IvValues(_, _)
IvValues(puts, price) ==
    IF puts = <<>> THEN [ok |-> TRUE, vals |-> <<>>]
    ELSE LET put == Head(puts)
             s == Float(put.strike)
             in_band == 90 * price <= 100 * s.v /\ 100 * s.v <= 110 * price
             has_iv == ~IsNone(put.greeks) /\ ~IsNone(Val(put.greeks).mid_iv)
             m == IF has_iv THEN Val(put.greeks).mid_iv ELSE None
             rest == IvValues(Tail(puts), price)
         IN  IF ~s.ok \/ (in_band /\ has_iv /\ ~IsNum(m)) THEN [ok |-> FALSE, vals |-> <<>>]
             ELSE IF in_band /\ has_iv /\ MinMidIV <= Val(m) /\ Val(m) <= MaxMidIV
                  THEN [ok |-> rest.ok, vals |-> <<Val(m)>> \o rest.vals]
                  ELSE rest

RECURSIVE Sum(_)
Sum(s) == IF s = <<>> THEN 0 ELSE Head(s) + Sum(Tail(s))

\* what get_stock_iv returns once the chain response is in: None or Some(iv)
IvOfChain(resp, price) ==
    IF resp.kind \in {"fail", "no_options"} THEN None
    ELSE LET got == IvValues(PutsOf(OptionsOf(resp)), price)
         IN  IF ~got.ok \/ got.vals = <<>> THEN None
             ELSE Some(RoundDiv(Sum(got.vals), Len(got.vals)))

-----------------------------------------------------------------------------
(* screen_stock_for_lst: its results. *)

\* get_stock_quote: None, or Some of the dict it returns
get_stock_quote(resp) ==
    IF resp.kind # "quote" THEN None
    ELSE LET last == Float(resp.last)
             volume == Float(resp.volume)
         IN  IF ~(last.ok /\ volume.ok) THEN None
             ELSE Some([price |-> last.v, volume |-> volume.v, description |-> "desc"])

\* get_options_expirations: the list, [] on any failure
get_options_expirations(resp) == IF resp.kind = "dates" THEN resp.date ELSE <<>>

\* if price < 50 or price > 200
PriceOutOfRange(price) == price < MinPrice \/ price > MaxPrice

\* VolumeBelowMinimum with the check left out
VolumeBelowMinimum_Never(volume) == FALSE

\* if volume_millions < 10
VolumeBelowMinimum(volume) == volume < MinVolume

\* round(volume_millions, 2)
VolumeMillions(volume) == RoundDiv(volume, 10000)

\* IvStatus with the two out-of-range texts exchanged
IvStatus_Swapped(v) ==
    IF IsNone(v) THEN "Unable to calculate IV"
    ELSE IF Val(v) < MinIV THEN "IV above LST maximum (45%)"
    ELSE IF Val(v) > MaxIV THEN "IV below LST minimum (25%)"
    ELSE "IV in LST range (25-45%)"

IvStatus(v) ==
    IF IsNone(v) THEN "Unable to calculate IV"
    ELSE IF Val(v) < MinIV THEN "IV below LST minimum (25%)"
    ELSE IF Val(v) > MaxIV THEN "IV above LST maximum (45%)"
    ELSE "IV in LST range (25-45%)"

\* IvQualified with the bounds excluded
IvQualified_Exclusive(v) == ~IsNone(v) /\ Val(v) > MinIV /\ Val(v) < MaxIV

IvQualified(v) == ~IsNone(v) /\ ~(Val(v) < MinIV) /\ ~(Val(v) > MaxIV)

NoQuoteResult(t) ==
    [ticker |-> t, qualified |-> FALSE, reason |-> "Unable to fetch quote"]

PriceResult(t, q) ==
    [ticker |-> t, qualified |-> FALSE, reason |-> "Price outside LST range ($50-$200)",
     price |-> q.price, volume_millions |-> VolumeMillions(q.volume)]

VolumeResult(t, q) ==
    [ticker |-> t, qualified |-> FALSE, reason |-> "Volume below LST minimum (10M)",
     price |-> q.price, volume_millions |-> VolumeMillions(q.volume)]

\* NoPutsResult without its reason
NoPutsResult_NoReason(t, q, v, status) ==
    [ticker |-> t, qualified |-> FALSE,
     price |-> q.price, volume_millions |-> VolumeMillions(q.volume),
     iv |-> v, iv_status |-> status]

NoPutsResult(t, q, v, status) ==
    [ticker |-> t, qualified |-> FALSE,
     reason |-> "No delta 0.20-0.30 puts found in 30-45 DTE range",
     price |-> q.price, volume_millions |-> VolumeMillions(q.volume),
     iv |-> v, iv_status |-> status]

FullResult(t, q, v, status, ivq, opps) ==
    [ticker |-> t, qualified |-> (ivq /\ Len(opps) > 0),
     price |-> q.price, volume_millions |-> VolumeMillions(q.volume),
     iv |-> v, iv_status |-> status, description |-> q.description,
     best_opportunity |-> opps[1], total_opportunities |-> Len(opps),
     all_opportunities |-> Take(opps, TopN)]

\* lines 356-391: the result once find_lst_put_opportunities has returned opps
ScreenResult(t, q, v, status, ivq, opps) ==
    IF opps = <<>> THEN NoPutsResult(t, q, v, status)
    ELSE FullResult(t, q, v, status, ivq, opps)

-----------------------------------------------------------------------------
(* lst_screen: the universe, the request, the sort. *)

LST_STOCK_UNIVERSE ==
    [consumer_staples |-> <<"KO", "PEP", "WMT", "TGT", "COST", "KR", "PG", "CL",
                            "CLX", "KMB", "CHD", "MKC", "GIS", "K", "CPB">>,
     healthcare |-> <<"JNJ", "PFE", "ABBV", "UNH", "CVS", "MRK", "LLY",
                      "BMY", "AMGN", "GILD">>,
     industrials |-> <<"HD", "LOW", "MMM", "CAT", "DE", "UPS", "FDX",
                       "HON", "LMT", "RTX">>,
     technology |-> <<"AAPL", "MSFT", "GOOGL", "INTC", "CSCO", "IBM",
                      "ORCL", "QCOM">>,
     consumer_discretionary |-> <<"MCD", "SBUX", "NKE", "DIS", "MAR", "BKNG", "CMG">>]

ALL_LST_STOCKS ==
    LST_STOCK_UNIVERSE.consumer_staples \o LST_STOCK_UNIVERSE.healthcare
    \o LST_STOCK_UNIVERSE.industrials \o LST_STOCK_UNIVERSE.technology
    \o LST_STOCK_UNIVERSE.consumer_discretionary

\* A string that is split or stripped is a sequence of characters.
\* str.upper(), character by character
UpperChar(c) == IF c = "k" THEN "K" ELSE IF c = "o" THEN "O" ELSE c
Upper(str) == [i \in 1..Len(str) |-> UpperChar(str[i])]

\* str.strip(): leading and trailing blanks removed
RECURSIVE LStrip(_)
LStrip(str) == IF str # <<>> /\ Head(str) = " " THEN LStrip(Tail(str)) ELSE str
RECURSIVE RStrip(_)
RStrip(str) ==
    IF str # <<>> /\ str[Len(str)] = " " THEN RStrip(SubSeq(str, 1, Len(str) - 1)) ELSE str
Strip(str) == RStrip(LStrip(str))

\* str.split(","): cur is the piece being read
RECURSIVE SplitFrom(_, _)
SplitFrom(str, cur) ==
    IF str = <<>> THEN <<cur>>
    ELSE IF Head(str) = "," THEN <<cur>> \o SplitFrom(Tail(str), <<>>)
    ELSE SplitFrom(Tail(str), Append(cur, Head(str)))
Split(str) == SplitFrom(str, <<>>)

\* request.args.get(name) is None or Some(string); None and the empty string are
\* falsy.  The tickers parameter is a sequence of characters, the others are atoms
Truthy(arg) == ~IsNone(arg) /\ Val(arg) # <<>>
TruthyName(arg) == ~IsNone(arg) /\ Val(arg) # ""

NoRequest == [method |-> "none"]
Get(tickers, category, all) ==
    [method |-> "GET", tickers |-> tickers, category |-> category, all |-> all]
\* request.get_json(): None, or a dict that holds the key "tickers" (Some(list)) or not (None)
Post(data) == [method |-> "POST", data |-> data]
NoTickersKey(n) == [tickers |-> None, keys |-> n]
TickersKey(list) == [tickers |-> Some(list), keys |-> 1]

\* a resolved list: "if not tickers_to_screen" is the 400 of line 468
Resolved(list) ==
    IF list = <<>> THEN [status |-> 400, error |-> "No tickers specified", tickers |-> <<>>]
    ELSE [status |-> 200, error |-> "", tickers |-> list]

\* [t.strip().upper() for t in tickers_param.split(",")]
FromTickers(param) ==
    Resolved([i \in 1..Len(Split(param)) |-> Upper(Strip(Split(param)[i]))])

\* lines 443-449
FromCategory(category) ==
    IF category \in DOMAIN LST_STOCK_UNIVERSE
    THEN Resolved(LST_STOCK_UNIVERSE[category])
    ELSE [status |-> 400, error |-> "Invalid category", tickers |-> <<>>]

\* lines 452-457
FromAllOrDefault(all) ==
    IF all = Some("true") THEN Resolved(ALL_LST_STOCKS)
    ELSE Resolved(Take(LST_STOCK_UNIVERSE.consumer_staples, DefaultN))

\* lines 460-465
FromBody(data) ==
    IF IsNone(data) \/ Val(data).keys = 0 \/ IsNone(Val(data).tickers)
    THEN [status |-> 400, error |-> "POST request must include 'tickers' list",
          tickers |-> <<>>]
    ELSE Resolved([i \in 1..Len(Val(Val(data).tickers)) |->
                      Upper(Val(Val(data).tickers)[i])])

\* ResolveTickers looking at the category before the tickers
ResolveTickers_CategoryFirst(req) ==
    IF req.method = "GET"
    THEN IF TruthyName(req.category) THEN FromCategory(Val(req.category))
         ELSE IF Truthy(req.tickers) THEN FromTickers(Val(req.tickers))
         ELSE FromAllOrDefault(req.all)
    ELSE FromBody(req.data)

\* lines 432-468: [status, error, tickers]; status 400 is the early return
ResolveTickers(req) ==
    IF req.method = "GET"
    THEN IF Truthy(req.tickers) THEN FromTickers(Val(req.tickers))
         ELSE IF TruthyName(req.category) THEN FromCategory(Val(req.category))
         ELSE FromAllOrDefault(req.all)
    ELSE FromBody(req.data)

\* key=lambda x: (x.get("qualified", False), x.get("best_opportunity", {}).get("return_pct", 0))
BestReturn(r) ==
    IF "best_opportunity" \in DOMAIN r THEN r.best_opportunity.return_pct ELSE 0

\* KeyGE comparing the best return alone
KeyGE_ReturnOnly(a, b) == BestReturn(a) >= BestReturn(b)

\* tuple comparison a >= b of two sort keys (False < True)
KeyGE(a, b) ==
    \/ a.qualified /\ ~b.qualified
    \/ a.qualified = b.qualified /\ BestReturn(a) >= BestReturn(b)

\* results.sort(key=..., reverse=True): stable, equal keys keep their order
RECURSIVE InsertByKey(_, _)
InsertByKey(sorted, r) ==
    IF sorted = <<>> THEN <<r>>
    ELSE IF KeyGE(Head(sorted), r)
         THEN <<Head(sorted)>> \o InsertByKey(Tail(sorted), r)
         ELSE <<r>> \o sorted

RECURSIVE SortResults(_)
SortResults(s) ==
    IF s = <<>> THEN <<>>
    ELSE InsertByKey(SortResults(SubSeq(s, 1, Len(s) - 1)), s[Len(s)])

-----------------------------------------------------------------------------
(* The steps. *)

\* an entry of reqlog: request number i of kind "quote", "expirations" or "chain",
\* issued by "screen", "iv" or "find" for expiration exp (0 when none); ok is
\* whether the upstream answered with a payload.  The entry of a chain request of
\* find_lst_put_opportunities also has skipped, whether the response lacked the
\* options/option field (line 154), and raised, whether that pass of the loop
\* ended in the except clause (lines 212-214); the entry of the chain request of
\* get_stock_iv also has data: the response it got
Req(kind, by, exp, resp) ==
    [i |-> idx, kind |-> kind, by |-> by, exp |-> exp, ok |-> resp.kind # "fail"]

\* ReturnResult counting every result as qualified
ReturnResult_CountAll(result) ==
    /\ results' = Append(results, result)
    /\ qualified_count' = qualified_count + 1
    /\ idx' = idx + 1
    /\ pc' = IF idx < Len(tickers_to_screen) THEN "quote" ELSE "sort"

\* lst_screen, lines 476-480: screen_stock_for_lst has returned result
ReturnResult(result) ==
    /\ results' = Append(results, result)
    /\ qualified_count' = qualified_count + (IF result.qualified THEN 1 ELSE 0)
    /\ idx' = idx + 1
    /\ pc' = IF idx < Len(tickers_to_screen) THEN "quote" ELSE "sort"

\* screen_stock_for_lst goes on to its next upstream call
Continue(next) ==
    /\ pc' = next
    /\ UNCHANGED <<results, qualified_count, idx>>

\* lines 431-470: the request arrives and the ticker list is resolved
lst_screen_resolve(Requests) ==
    /\ pc = "idle"
    /\ \E req \in Requests :
        LET got == ResolveTickers(req)
        IN  /\ request' = req
            /\ tickers_to_screen' = got.tickers
            /\ IF got.status = 400
               THEN /\ response' = Some([status |-> 400, error |-> got.error])
                    /\ pc' = "done"
               ELSE /\ response' = None
                    /\ pc' = "quote"
    /\ UNCHANGED <<idx, results, qualified_count, quote, iv, iv_status, iv_qualified,
                   opportunities, expirations, closest_exp, suitable_expirations,
                   fetched, collected, reqlog>>

\* The except clauses of screen_stock_for_lst (lines 393-399) and of lst_screen
\* (lines 509-511) have no step: get_stock_quote, get_stock_iv and
\* find_lst_put_opportunities catch every Exception of their upstream calls
\* themselves, and the requests of the environment hold strings only.

\* lines 305-334: screen_stock_for_lst starts for tickers_to_screen[idx] and gets the quote
screen_get_quote(Quotes) ==
    /\ pc = "quote"
    /\ \E resp \in Quotes :
        LET t == tickers_to_screen[idx]
            q == get_stock_quote(resp)
        IN  /\ reqlog' = Append(reqlog, Req("quote", "screen", 0, resp))
            /\ quote' = q
            /\ IF IsNone(q) THEN ReturnResult(NoQuoteResult(t))
               ELSE IF PriceOutOfRange(Val(q).price)
                    THEN ReturnResult(PriceResult(t, Val(q)))
               ELSE IF VolumeBelowMinimum(Val(q).volume)
                    THEN ReturnResult(VolumeResult(t, Val(q)))
               ELSE Continue("iv_exps")
    /\ iv' = None /\ iv_status' = "" /\ iv_qualified' = FALSE
    /\ opportunities' = <<>> /\ expirations' = <<>> /\ closest_exp' = None
    /\ suitable_expirations' = <<>> /\ fetched' = 0 /\ collected' = <<>>
    /\ UNCHANGED <<request, tickers_to_screen, response>>

\* get_stock_iv has returned v: lines 337-351
ReturnIv(v) ==
    /\ iv' = v
    /\ iv_status' = IvStatus(v)
    /\ iv_qualified' = IvQualified(v)
    /\ Continue("find_exps")

\* get_stock_iv, lines 223-244: the expirations, and the one closest to 37 days
iv_get_expirations(Expirations) ==
    /\ pc = "iv_exps"
    /\ \E resp \in Expirations :
        LET exps == get_options_expirations(resp)
            closest == ClosestExp(exps)
        IN  /\ reqlog' = Append(reqlog, Req("expirations", "iv", 0, resp))
            /\ expirations' = exps
            /\ closest_exp' = closest
            /\ IF exps = <<>> \/ IsNone(closest)
               THEN ReturnIv(None)
               ELSE /\ Continue("iv_chain")
                    /\ UNCHANGED <<iv, iv_status, iv_qualified>>
    /\ UNCHANGED <<request, tickers_to_screen, response, quote, opportunities,
                   suitable_expirations, fetched, collected>>

\* get_stock_iv, lines 246-288: the chain of closest_exp, and the average
iv_get_chain(Chains) ==
    /\ pc = "iv_chain"
    /\ \E resp \in Chains :
        /\ reqlog' = Append(reqlog, Req("chain", "iv", Val(closest_exp), resp)
                                        @@ [data |-> resp])
        /\ ReturnIv(IvOfChain(resp, Val(quote).price))
    /\ UNCHANGED <<request, tickers_to_screen, response, quote, opportunities, expirations,
                   closest_exp, suitable_expirations, fetched, collected>>

\* find_lst_put_opportunities has returned opps: lines 354-391, then lst_screen's loop
ReturnOpportunities(opps) ==
    /\ opportunities' = opps
    /\ ReturnResult(ScreenResult(tickers_to_screen[idx], Val(quote), iv, iv_status,
                                 iv_qualified, opps))

\* find_except returning what the earlier passes collected
find_except_Collected == SortByReturn(collected)

\* lines 212-214: except Exception: return []
find_except == <<>>

\* find_lst_put_opportunities, lines 113-135
find_get_expirations(Expirations) ==
    /\ pc = "find_exps"
    /\ \E resp \in Expirations :
        LET exps == get_options_expirations(resp)
            suitable == SuitableOf(exps)
        IN  /\ reqlog' = Append(reqlog, Req("expirations", "find", 0, resp))
            /\ expirations' = exps
            /\ suitable_expirations' = suitable
            /\ IF exps = <<>> \/ suitable = <<>>
               THEN ReturnOpportunities(<<>>)
               ELSE /\ Continue("find_chain")
                    /\ UNCHANGED opportunities
    /\ fetched' = 0
    /\ collected' = <<>>
    /\ UNCHANGED <<request, tickers_to_screen, response, quote, iv, iv_status,
                   iv_qualified, closest_exp>>

\* find_lst_put_opportunities, lines 138-214: one pass of the loop over
\* suitable_expirations[:2]; after the last pass, the sort and the return
find_get_chain(Chains) ==
    /\ pc = "find_chain"
    /\ \E resp \in Chains :
        LET exp_date == suitable_expirations[fetched + 1]
            last == fetched + 1 = Len(Take(suitable_expirations, MaxFetch))
            got == IF resp.kind = "no_options" THEN [ok |-> TRUE, opps |-> <<>>]
                   ELSE ProcessPuts(PutsOf(OptionsOf(resp)), exp_date, Val(quote).price)
            raised == resp.kind = "fail" \/ ~got.ok
        IN  /\ reqlog' = Append(reqlog, Req("chain", "find", exp_date, resp)
                                            @@ [skipped |-> resp.kind = "no_options", raised |-> raised])
            /\ fetched' = fetched + 1
            /\ IF raised
               THEN /\ collected' = collected
                    /\ ReturnOpportunities(find_except)
               ELSE /\ collected' = collected \o got.opps
                    /\ IF last
                       THEN ReturnOpportunities(SortByReturn(collected \o got.opps))
                       ELSE /\ Continue("find_chain")
                            /\ UNCHANGED opportunities
    /\ UNCHANGED <<request, tickers_to_screen, response, quote, iv, iv_status,
                   iv_qualified, expirations, closest_exp, suitable_expirations>>

\* lst_screen, lines 482-507: the loop is over; the sort and the response
lst_screen_respond ==
    /\ pc = "sort"
    /\ results' = SortResults(results)
    /\ response' = Some([status |-> 200, success |-> TRUE,
                         total_screened |-> Len(results),
                         qualified |-> qualified_count,
                         results |-> SortResults(results)])
    /\ pc' = "done"
    /\ UNCHANGED <<request, tickers_to_screen, idx, qualified_count, quote, iv, iv_status,
                   iv_qualified, opportunities, expirations, closest_exp,
                   suitable_expirations, fetched, collected, reqlog>>

-----------------------------------------------------------------------------
(* The environment: what the client sends and what the upstream answers.   *)

\* bounds of the environment
MaxExps == 3
MaxChain == 2
MaxTickers == 3
MaxParamLen == 4

KO == <<"K", "O">>

\* the put of the worked example: strike 60, bid 1.10, ask 1.30, delta -0.25
PutExample == Put(Some(-2500), Some(3000), Some(6000), Some(110), Some(130))
\* delta on the lower bound, a mid price on a half cent
PutLow == Put(Some(-2000), Some(2600), Some(5500), Some(50), Some(61))
\* a positive delta on the upper bound, no strike, no mid_iv
PutNoStrike == Put(Some(3000), None, None, Some(100), Some(120))
\* the same return_pct as PutExample from another strike
PutSameReturn == Put(Some(-2200), Some(3100), Some(3000), Some(55), Some(65))
\* deltas just outside the band
PutBelow == Put(Some(-1999), Some(3000), Some(5000), Some(40), Some(50))
PutAbove == Put(Some(-3001), Some(3000), Some(6100), Some(150), Some(170))
\* a call in the band, a put without greeks, a put whose greeks hold no delta
CallInBand == Call(Some(2500), Some(3000), Some(6500), Some(110), Some(130))
PutNoGreeks == NoGreeks(PutExample)
PutNoDelta == Put(None, Some(3000), Some(6000), Some(110), Some(130))
\* a put in the band whose bid is null
PutBadBid == Put(Some(-2500), Some(3000), Some(6000), Unparsable, Some(130))

ChainPool ==
    {PutExample, PutLow, PutNoStrike, PutSameReturn, PutBelow, PutAbove,
     CallInBand, PutNoGreeks, PutNoDelta, PutBadBid}
ListPool == {PutExample, PutLow, CallInBand}

ChainsOf(Single, Listed, n) ==
    {Fail, NoOptions} \cup {SingleOf(c) : c \in Single}
    \cup {ListOf(s) : s \in SeqsUpTo(Listed, n)}

ExpirationsOf(Days, n) == {Fail} \cup {Dates(s) : s \in SeqsUpTo(Days, n)}

GoodQuote == Quote(Some(6250), Some(15000000))

\* --- find_lst_put_opportunities under every chain and expirations list
FindRequests == {Post(Some(TickersKey(<<KO>>)))}
FindQuotes == {GoodQuote}
FindIvExpirations == {Fail}
FindDays == {29, 30, 45, 46}
\* three dates in the window, out of order; the same with dates outside between them
FindLongExpirations == {Dates(<<45, 36, 30>>), Dates(<<46, 36, 29, 30, 45>>)}
FindExpirations == ExpirationsOf(FindDays, MaxExps) \cup FindLongExpirations
FindChains == ChainsOf(ChainPool, ListPool, MaxChain)

Init ==
    /\ pc = "idle"
    /\ request = NoRequest
    /\ tickers_to_screen = <<>>
    /\ idx = 1
    /\ results = <<>>
    /\ qualified_count = 0
    /\ response = None
    /\ quote = None
    /\ iv = None
    /\ iv_status = ""
    /\ iv_qualified = FALSE
    /\ opportunities = <<>>
    /\ expirations = <<>>
    /\ closest_exp = None
    /\ suitable_expirations = <<>>
    /\ fetched = 0
    /\ collected = <<>>
    /\ reqlog = <<>>

NextFind ==
    \/ lst_screen_resolve(FindRequests)
    \/ screen_get_quote(FindQuotes)
    \/ iv_get_expirations(FindIvExpirations)
    \/ find_get_expirations(FindExpirations)
    \/ find_get_chain(FindChains)
    \/ lst_screen_respond

SpecFind == Init /\ [][NextFind]_vars

\* --- screen_stock_for_lst on the bounds of every criterion
ScreenRequests == {Post(Some(TickersKey(<<KO>>)))}
ScreenQuotes ==
    {Fail, NoQuote, Quote(Unparsable, Some(15000000)), Quote(None, Some(15000000))}
    \cup {Quote(Some(last), Some(volume)) :
            last \in {4999, 5000, 20000, 20001}, volume \in {9999999, 10000000}}
ScreenIvExpirations == {Fail, Dates(<<>>), Dates(<<29>>), Dates(<<37>>)}
\* one put at the money of each price in the range, both with mid_iv m
IvChain(m) ==
    ListOf(<<Put(Some(-5000), Some(m), Some(5000), Some(100), Some(110)),
             Put(Some(-5000), Some(m), Some(20000), Some(400), Some(410))>>)
ScreenIvChains == {Fail, NoOptions} \cup {IvChain(m) : m \in {2499, 2500, 4500, 4501}}
ScreenFindExpirations == {Fail, Dates(<<46>>), Dates(<<30>>), Dates(<<30, 45>>)}
ScreenFindChains ==
    {Fail, NoOptions, SingleOf(PutExample), SingleOf(PutLow), SingleOf(PutBelow)}

NextScreen ==
    \/ lst_screen_resolve(ScreenRequests)
    \/ screen_get_quote(ScreenQuotes)
    \/ iv_get_expirations(ScreenIvExpirations)
    \/ iv_get_chain(ScreenIvChains)
    \/ find_get_expirations(ScreenFindExpirations)
    \/ find_get_chain(ScreenFindChains)
    \/ lst_screen_respond

SpecScreen == Init /\ [][NextScreen]_vars

\* --- a batch of tickers, each against a small upstream
BatchTokens == {<<"k">>, <<"O">>}
BatchRequests == {Post(Some(TickersKey(s))) : s \in SeqsUpTo(BatchTokens, MaxTickers)}
BatchQuotes == {Fail, Quote(Some(4999), Some(15000000)), GoodQuote}
BatchIvExpirations == {Dates(<<37>>)}
BatchIvChains ==
    {Fail, SingleOf(Put(Some(-5000), Some(3000), Some(6000), Some(300), Some(310)))}
BatchFindExpirations == {Dates(<<30>>)}
BatchFindChains == {NoOptions, SingleOf(PutExample), SingleOf(PutLow)}

Next ==
    \/ lst_screen_resolve(BatchRequests)
    \/ screen_get_quote(BatchQuotes)
    \/ iv_get_expirations(BatchIvExpirations)
    \/ iv_get_chain(BatchIvChains)
    \/ find_get_expirations(BatchFindExpirations)
    \/ find_get_chain(BatchFindChains)
    \/ lst_screen_respond

Spec == Init /\ [][Next]_vars

\* --- get_stock_iv under every expirations list and chain; the band of strikes
\* of GoodQuote is [56.25, 68.75]
IvRequests == {Post(Some(TickersKey(<<KO>>)))}
IvQuotes == {GoodQuote}
IvDays == {29, 36, 38, 46}
\* the bounds of the window, alone and against a date as far from 37 days
IvEdgeExpirations == {Dates(<<30>>), Dates(<<45>>), Dates(<<45, 30>>), Dates(<<44, 30>>)}
IvExpirations == ExpirationsOf(IvDays, MaxExps) \cup IvEdgeExpirations
\* a put at the money; puts on the bounds of the band of strikes and of mid_iv
IvAtm == Put(Some(-5000), Some(3001), Some(6250), Some(200), Some(210))
IvLowEdge == Put(Some(-3000), Some(500), Some(5625), Some(100), Some(110))
IvHighEdge == Put(Some(-7000), Some(20000), Some(6875), Some(700), Some(710))
\* puts just outside the band of strikes, puts with a mid_iv just out of bounds
IvBelowBand == Put(Some(-3000), Some(4000), Some(5624), Some(100), Some(110))
IvAboveBand == Put(Some(-7000), Some(4000), Some(6876), Some(700), Some(710))
IvTooLow == Put(Some(-5000), Some(499), Some(6250), Some(200), Some(210))
IvTooHigh == Put(Some(-5000), Some(20001), Some(6250), Some(200), Some(210))
\* a call at the money; puts without greeks, mid_iv or strike; null mid_iv, null strike
IvCall == Call(Some(5000), Some(8000), Some(6250), Some(200), Some(210))
IvNoGreeks == NoGreeks(IvAtm)
IvNoMidIv == Put(Some(-5000), None, Some(6250), Some(200), Some(210))
IvNoStrike == Put(Some(-5000), Some(3001), None, Some(200), Some(210))
IvBadMidIv == Put(Some(-5000), Unparsable, Some(6250), Some(200), Some(210))
IvBadStrike == Put(Some(-5000), Some(3001), Unparsable, Some(200), Some(210))
IvChainPool ==
    {IvAtm, IvLowEdge, IvHighEdge, IvBelowBand, IvAboveBand, IvTooLow, IvTooHigh,
     IvCall, IvNoGreeks, IvNoMidIv, IvNoStrike, IvBadMidIv, IvBadStrike}
IvListPool == {IvAtm, IvLowEdge, IvCall, IvAboveBand}
\* a chain where only the puts on the two bounds count
IvMixedChain == ListOf(<<IvCall, IvLowEdge, IvAboveBand, IvHighEdge, IvTooHigh>>)
IvChains == ChainsOf(IvChainPool, IvListPool, MaxChain) \cup {IvMixedChain}
IvFindExpirations == {Fail}

NextIv ==
    \/ lst_screen_resolve(IvRequests)
    \/ screen_get_quote(IvQuotes)
    \/ iv_get_expirations(IvExpirations)
    \/ iv_get_chain(IvChains)
    \/ find_get_expirations(IvFindExpirations)
    \/ lst_screen_respond

SpecIv == Init /\ [][NextIv]_vars

\* --- every request, against an upstream that serves no quote
ParamChars == {"k", "O", " ", ","}
Categories ==
    {"", "bogus", "consumer_staples", "healthcare", "industrials", "technology",
     "consumer_discretionary"}
ResolveRequests ==
    {Get(t, c, a) :
        t \in {None} \cup {Some(str) : str \in SeqsUpTo(ParamChars, MaxParamLen)},
        c \in {None} \cup {Some(name) : name \in Categories},
        a \in {None, Some("true"), Some("false")}}
    \cup {Post(None), Post(Some(NoTickersKey(0))), Post(Some(NoTickersKey(1)))}
    \cup {Post(Some(TickersKey(s))) : s \in SeqsUpTo({<<"k">>, <<" ", "O">>}, MaxTickers)}
ResolveQuotes == {Fail}

NextResolve ==
    \/ lst_screen_resolve(ResolveRequests)
    \/ screen_get_quote(ResolveQuotes)
    \/ lst_screen_respond

SpecResolve == Init /\ [][NextResolve]_vars

-----------------------------------------------------------------------------
(* Claims about find_lst_put_opportunities, under SpecFind. *)

Returned == pc \in {"sort", "done"}
Price == Val(quote).price
InWindow(d) == MinDTE <= d /\ d <= MaxDTE

\* the chain requests find_lst_put_opportunities issued for the current ticker
FindChainDates ==
    {reqlog[k].exp : k \in {j \in 1..Len(reqlog) :
        reqlog[j].kind = "chain" /\ reqlog[j].by = "find" /\ reqlog[j].i = Len(results)}}

\* C5: every opportunity find_lst_put_opportunities returns was computed from a
\* put that has a delta in its greeks with 0.20 <= |delta| <= 0.30, fetched for an
\* expiration with 30 <= dte <= 45; no call, no put without a delta and no
\* contract of an expiration outside the window is in the list.
C5_OnlyBandPutsInWindow ==
    Returned =>
        \A k \in 1..Len(opportunities) :
            LET o == opportunities[k]
                c == o.contract
            IN  /\ c.option_type = "put"
                /\ ~IsNone(c.greeks)
                /\ IsNum(Val(c.greeks).delta)
                /\ MinDelta <= Abs(Val(Val(c.greeks).delta))
                /\ Abs(Val(Val(c.greeks).delta)) <= MaxDelta
                /\ 200 <= o.delta /\ o.delta <= 300
                /\ InWindow(o.dte)
                /\ o.expiration \in FindChainDates

\* C5's case: a list was returned that holds an opportunity on each bound of the
\* window and of the band, from chains that were fetched
C5_Witness ==
    /\ pc = "done"
    /\ \E j, k \in 1..Len(opportunities) :
        /\ opportunities[j].dte = MinDTE /\ opportunities[j].contract = PutLow
        /\ opportunities[k].dte = MaxDTE /\ opportunities[k].contract = PutNoStrike

\* C6: the list find_lst_put_opportunities returns is sorted non-increasing by
\* return_pct over the opportunities of all fetched expirations together, so its
\* first element has the largest return_pct of the list.
C6_SortedByReturn ==
    Returned =>
        \A j, k \in 1..Len(opportunities) :
            j < k => opportunities[j].return_pct >= opportunities[k].return_pct

\* C6's case: an opportunity of the second expiration fetched was moved ahead of
\* one of the first
C6_Witness ==
    /\ pc = "done"
    /\ Len(suitable_expirations) >= 2
    /\ \E j, k \in 1..Len(opportunities) :
        /\ j < k
        /\ opportunities[j].expiration = suitable_expirations[2]
        /\ opportunities[k].expiration = suitable_expirations[1]
        /\ suitable_expirations[1] # suitable_expirations[2]
        /\ opportunities[j].return_pct > opportunities[k].return_pct

\* |x - n/d| <= 1/2 for d > 0: x is n/d rounded to the unit, whatever a tie gives
Rounds(x, n, d) == 2 * Abs(x * d - n) <= d

\* the fields of o that do not divide by the strike follow their formulas, from the
\* strike s, bid b and ask a of the contract and the price p
FormulasHold(o, s, b, a, p) ==
    /\ Rounds(o.mid_price, b + a, 2)
    /\ o.premium_per_contract = 50 * (b + a)
    /\ o.capital_at_risk = 100 * s
    /\ Rounds(o.distance_from_price_pct, 10000 * (p - s), p)
    /\ o.bid_ask_spread = a - b

\* return_pct = premium_per_contract / capital_at_risk * 100, stated without the
\* division: |return_pct * capital_at_risk - premium_per_contract * 100| <= capital_at_risk / 2
ReturnFormulaHolds(o) ==
    2 * Abs(o.return_pct * o.capital_at_risk - 10000 * o.premium_per_contract)
        <= o.capital_at_risk

IsWorkedExample(o) ==
    /\ o.mid_price = 120
    /\ o.premium_per_contract = 12000
    /\ o.capital_at_risk = 600000
    /\ o.return_pct = 200
    /\ o.distance_from_price_pct = 400

\* C10 as stated: every opportunity, whatever its strike, has mid_price,
\* premium_per_contract, capital_at_risk, distance_from_price_pct and bid_ask_spread
\* by their formulas and return_pct = premium_per_contract / capital_at_risk * 100.
C10_AsStated ==
    Returned =>
        \A k \in 1..Len(opportunities) :
            LET o == opportunities[k]
                c == o.contract
            IN  /\ FormulasHold(o, Float(c.strike).v, Val(c.bid), Val(c.ask), Price)
                /\ ReturnFormulaHolds(o)

\* C10 amended: the formulas hold for every opportunity, and return_pct is
\* premium_per_contract / capital_at_risk * 100 when the strike is positive and 0
\* when the strike is missing or not positive; the worked example gives
\* mid_price 1.20, premium 120.0, capital_at_risk 6000.0, return_pct 2.0, distance 4.0.
C10_FormulasPositiveStrike ==
    Returned =>
        \A k \in 1..Len(opportunities) :
            LET o == opportunities[k]
                c == o.contract
                s == Float(c.strike).v
            IN  /\ FormulasHold(o, s, Val(c.bid), Val(c.ask), Price)
                /\ s > 0 => ReturnFormulaHolds(o)
                /\ s <= 0 => o.return_pct = 0
                /\ (c = PutExample /\ Price = 6250) => IsWorkedExample(o)

\* C10's case: the list returned holds the worked example, an opportunity whose
\* mid price and return are rounded, and one without a strike
C10_Witness ==
    /\ pc = "done"
    /\ Price = 6250
    /\ \E i, j, k \in 1..Len(opportunities) :
        /\ opportunities[i].contract = PutExample
        /\ opportunities[j].contract = PutLow
        /\ opportunities[j].return_pct = 101
        /\ opportunities[k].contract = PutNoStrike
        /\ opportunities[k].capital_at_risk = 0

-----------------------------------------------------------------------------
(* Claims about screen_stock_for_lst, under SpecScreen (one ticker). *)

\* the requests of the ticker being screened, or screened last
TickerNo == IF pc \in {"sort", "done"} THEN Len(results) ELSE idx
Calls == {k \in 1..Len(reqlog) : reqlog[k].i = TickerNo}
SomeCallFailed == \E k \in Calls : ~reqlog[k].ok
Has(r, key) == key \in DOMAIN r

QuoteInBand ==
    /\ ~IsNone(quote)
    /\ MinPrice <= Val(quote).price /\ Val(quote).price <= MaxPrice
VolumeEnough == ~IsNone(quote) /\ Val(quote).volume >= MinVolume
IvInRange == ~IsNone(iv) /\ MinIV <= Val(iv) /\ Val(iv) <= MaxIV

\* C1: the result of screen_stock_for_lst is qualified if and only if the quote was
\* obtained with 50 <= price <= 200 and volume >= 10M, the IV estimate is present
\* with 25 <= iv <= 45, and find_lst_put_opportunities returned an opportunity.
C1_QualifiedIff ==
    Returned =>
        (results[Len(results)].qualified
            <=> (QuoteInBand /\ VolumeEnough /\ IvInRange /\ opportunities # <<>>))

\* C1's case: a ticker qualified on the upper bound of the price and of the IV and
\* on the lower bound of the volume
C1_Witness ==
    /\ pc = "done"
    /\ results[1].qualified
    /\ Val(quote).price = MaxPrice
    /\ Val(quote).volume = MinVolume
    /\ Val(iv) = MaxIV

\* C2 as stated: whenever an upstream call of the ticker failed, its result is
\* qualified=false with a reason.
C2_AsStated ==
    (Returned /\ SomeCallFailed) =>
        /\ ~results[Len(results)].qualified
        /\ Has(results[Len(results)], "reason")

\* C2 amended: whenever an upstream call of the ticker failed, screen_stock_for_lst
\* still returns a result, with qualified=false; the result has a reason, or else
\* only calls of get_stock_iv failed, an opportunity was found, and the result has
\* iv = None and iv_status "Unable to calculate IV" in place of a reason.
C2_FailureGivesUnqualified ==
    (Returned /\ SomeCallFailed) =>
        LET r == results[Len(results)]
        IN  /\ Len(results) = Len(tickers_to_screen)
            /\ ~r.qualified
            /\ \/ Has(r, "reason") /\ r.reason # ""
               \/ /\ ~Has(r, "reason")
                  /\ \A k \in Calls : ~reqlog[k].ok => reqlog[k].by = "iv"
                  /\ Has(r, "best_opportunity")
                  /\ IsNone(r.iv)
                  /\ r.iv_status = "Unable to calculate IV"

\* C2's case: the chain request of get_stock_iv failed, the chain of
\* find_lst_put_opportunities held a put in the band, and the result is unqualified
\* without a reason
C2_Witness ==
    /\ pc = "done"
    /\ \E k \in Calls : reqlog[k].kind = "chain" /\ reqlog[k].by = "iv" /\ ~reqlog[k].ok
    /\ opportunities # <<>>
    /\ ~results[1].qualified
    /\ ~Has(results[1], "reason")

\* C3 as stated: every unqualified result carries a reason.
C3_AsStated ==
    Returned => (~results[Len(results)].qualified => Has(results[Len(results)], "reason"))

\* C3 amended: an unqualified result carries the reason of the rule that failed
\* when the quote is unavailable, the price is out of band, the volume is below
\* the minimum or no opportunity was found; when the ticker passes price and
\* volume and has an opportunity but its IV is absent or out of range, the result
\* has no reason field and its iv_status names the IV failure.
C3_ReasonUnlessOnlyIvFails ==
    Returned =>
        LET r == results[Len(results)]
        IN  ~r.qualified =>
              IF IsNone(quote) THEN r.reason = "Unable to fetch quote"
              ELSE IF ~QuoteInBand THEN r.reason = "Price outside LST range ($50-$200)"
              ELSE IF ~VolumeEnough THEN r.reason = "Volume below LST minimum (10M)"
              ELSE IF opportunities = <<>>
                   THEN r.reason = "No delta 0.20-0.30 puts found in 30-45 DTE range"
              ELSE /\ ~Has(r, "reason")
                   /\ ~IvInRange
                   /\ r.iv = iv
                   /\ r.iv_status =
                        IF IsNone(iv) THEN "Unable to calculate IV"
                        ELSE IF Val(iv) < MinIV THEN "IV below LST minimum (25%)"
                        ELSE "IV above LST maximum (45%)"

\* C3's case: price and volume pass, an opportunity was found, the IV is just
\* above the range
C3_Witness ==
    /\ pc = "done"
    /\ QuoteInBand /\ VolumeEnough
    /\ opportunities # <<>>
    /\ ~IsNone(iv) /\ Val(iv) = MaxIV + 1
    /\ ~results[1].qualified

\* C4: an expirations or chain request is issued for a ticker only after its quote
\* was obtained with price in [50,200] and volume >= 10M; when the price is out of
\* band, or the volume is below 10M with the price in band, the result is
\* qualified=false with the reason of that criterion, carries price and
\* volume_millions, and has no iv, iv_status, best_opportunity or
\* all_opportunities field.
C4_NoOptionCallBeforeQuotePasses ==
    /\ \A k \in Calls :
          reqlog[k].kind \in {"expirations", "chain"} =>
              /\ QuoteInBand /\ VolumeEnough
              /\ \E j \in Calls : j < k /\ reqlog[j].kind = "quote" /\ reqlog[j].ok
    /\ (Returned /\ ~IsNone(quote) /\ ~(QuoteInBand /\ VolumeEnough)) =>
          LET r == results[Len(results)]
          IN  /\ ~r.qualified
              /\ r.reason = IF ~QuoteInBand THEN "Price outside LST range ($50-$200)"
                            ELSE "Volume below LST minimum (10M)"
              /\ r.price = Val(quote).price
              /\ Rounds(r.volume_millions, Val(quote).volume, 10000)
              /\ DOMAIN r = {"ticker", "qualified", "reason", "price", "volume_millions"}
              /\ \A k \in Calls : reqlog[k].kind = "quote"

\* C4's case: the price is on the lower bound and the volume one share short
C4_Witness ==
    /\ pc = "done"
    /\ ~IsNone(quote)
    /\ Val(quote).price = MinPrice
    /\ Val(quote).volume = MinVolume - 1
    /\ results[1].reason = "Volume below LST minimum (10M)"

-----------------------------------------------------------------------------
(* Claims about lst_screen, under Spec (a batch) and SpecResolve (every request). *)

\* the best return of r, taken as 0 when r has no best_opportunity
BestOrZero(r) == IF Has(r, "best_opportunity") THEN r.best_opportunity.return_pct ELSE 0
SameKey(a, b) == a.qualified = b.qualified /\ BestOrZero(a) = BestOrZero(b)

\* the elements of s that have the key of r, in the order of s
RECURSIVE WithKeyOf(_, _)
WithKeyOf(s, r) ==
    IF s = <<>> THEN <<>>
    ELSE (IF SameKey(Head(s), r) THEN <<Head(s)>> ELSE <<>>) \o WithKeyOf(Tail(s), r)

\* s is ordered as the claim says
OrderedByKey(s) ==
    \A j, k \in 1..Len(s) :
        j < k =>
            \/ s[j].qualified /\ ~s[k].qualified
            \/ s[j].qualified = s[k].qualified /\ BestOrZero(s[j]) >= BestOrZero(s[k])

\* C7: when the batch is sorted, any result placed before another is qualified
\* while the other is not, or has the same qualified value and a best return (0
\* when there is no best_opportunity) at least as large; the sorted list holds the
\* same results, and results with equal keys keep their input order.
C7_BatchSorted ==
    [][pc = "sort" =>
        /\ Len(results') = Len(results)
        /\ OrderedByKey(results')
        /\ \A k \in 1..Len(results) :
              WithKeyOf(results', results[k]) = WithKeyOf(results, results[k])
        /\ response' = Some([status |-> 200, success |-> TRUE,
                             total_screened |-> Len(results),
                             qualified |-> qualified_count,
                             results |-> results'])]_vars

\* C7's case: three results; the qualified one, screened last and with the lowest
\* return, is moved ahead of two unqualified ones that have a best_opportunity and
\* equal keys, and these two keep their input order
C7_Witness ==
    /\ pc = "done"
    /\ Len(results) = 3
    /\ results[1].qualified
    /\ ~results[2].qualified
    /\ Has(results[2], "best_opportunity")
    /\ BestOrZero(results[2]) > BestOrZero(results[1])
    /\ SameKey(results[2], results[3])
    /\ results[2].ticker = tickers_to_screen[1]
    /\ results[3].ticker = tickers_to_screen[2]
    /\ tickers_to_screen[1] # tickers_to_screen[2]

Count(s, x) == Cardinality({k \in 1..Len(s) : s[k] = x})
Tickers(s) == [k \in 1..Len(s) |-> s[k].ticker]

\* C8: the tickers are screened one at a time in input order, whatever fails
\* upstream: the k-th result is that of the k-th ticker until the sort, the requests
\* of a ticker all precede those of the next, and the response holds one result per
\* ticker occurrence, total_screened = the length of the list and qualified = the
\* number of results with qualified=true.
C8_OneResultPerTicker ==
    /\ pc \notin {"idle", "done"} =>
          /\ Len(results) = idx - 1
          /\ Tickers(results) = SubSeq(tickers_to_screen, 1, Len(results))
          /\ qualified_count = Cardinality({k \in 1..Len(results) : results[k].qualified})
    /\ \A j, k \in 1..Len(reqlog) : j < k => reqlog[j].i <= reqlog[k].i
    /\ \A k \in 1..Len(reqlog) : reqlog[k].i <= Len(tickers_to_screen)
    /\ (pc = "done" /\ tickers_to_screen # <<>>) =>
          LET body == Val(response)
          IN  /\ body.status = 200
              /\ body.total_screened = Len(tickers_to_screen)
              /\ Len(body.results) = Len(tickers_to_screen)
              /\ body.qualified
                    = Cardinality({k \in 1..Len(body.results) : body.results[k].qualified})
              /\ \A k \in 1..Len(tickers_to_screen) :
                    /\ Count(Tickers(body.results), tickers_to_screen[k])
                          = Count(tickers_to_screen, tickers_to_screen[k])
                    /\ \E j \in 1..Len(reqlog) : reqlog[j].i = k /\ reqlog[j].kind = "quote"

\* C8's case: the same ticker twice; its first screening fails upstream and its
\* second one qualifies
C8_Witness ==
    /\ pc = "done"
    /\ Len(tickers_to_screen) = 2
    /\ tickers_to_screen[1] = tickers_to_screen[2]
    /\ ~reqlog[1].ok
    /\ Val(response).qualified = 1
    /\ Val(response).total_screened = 2

\* the tickers parameter as the claim reads it: split at the commas, upper-cased
UpperCased(param) == [i \in 1..Len(Split(param)) |-> Upper(Split(param)[i])]
Stripped(param) == [i \in 1..Len(Split(param)) |-> Upper(Strip(Split(param)[i]))]
Is400 == pc = "done" /\ ~IsNone(response) /\ Val(response).status = 400
Screens(list) == ~Is400 /\ tickers_to_screen = list

\* no ticker is screened on a 400
Nothing == Is400 /\ reqlog = <<>> /\ results = <<>>

\* the POST part of C9, and the empty list
PostAndEmpty ==
    /\ (request.method = "POST"
            /\ (IsNone(request.data) \/ IsNone(Val(request.data).tickers))) => Nothing
    /\ (request.method # "none" /\ tickers_to_screen = <<>>) => Nothing
    /\ Is400 => Nothing

\* C9 as stated: a non-empty tickers parameter gives those tickers upper-cased;
\* else a category parameter gives its list, or 400 when the name is unknown; else
\* all=true gives the universe; else the first 10 consumer staples.
C9_AsStated ==
    /\ PostAndEmpty
    /\ request.method = "GET" =>
          IF Truthy(request.tickers) THEN Screens(UpperCased(Val(request.tickers)))
          ELSE IF ~IsNone(request.category)
               THEN IF Val(request.category) \in DOMAIN LST_STOCK_UNIVERSE
                    THEN Screens(LST_STOCK_UNIVERSE[Val(request.category)])
                    ELSE Nothing
          ELSE IF request.all = Some("true") THEN Screens(ALL_LST_STOCKS)
          ELSE Screens(SubSeq(LST_STOCK_UNIVERSE.consumer_staples, 1, 10))

\* C9 amended: a non-empty tickers parameter gives its comma-separated pieces,
\* each stripped of surrounding blanks and upper-cased; else a non-empty category
\* parameter gives its list, or 400 when the name is unknown; an empty category
\* parameter counts as none; else all=true gives the universe; else the first 10
\* consumer staples.  A POST without a tickers key and an empty resolved list give
\* 400, and on a 400 no ticker is screened.
C9_FirstMatchResolution ==
    /\ PostAndEmpty
    /\ request.method = "GET" =>
          IF Truthy(request.tickers) THEN Screens(Stripped(Val(request.tickers)))
          ELSE IF ~IsNone(request.category) /\ Val(request.category) # ""
               THEN IF Val(request.category) \in DOMAIN LST_STOCK_UNIVERSE
                    THEN Screens(LST_STOCK_UNIVERSE[Val(request.category)])
                    ELSE Nothing
          ELSE IF request.all = Some("true") THEN Screens(ALL_LST_STOCKS)
          ELSE Screens(SubSeq(LST_STOCK_UNIVERSE.consumer_staples, 1, 10))

\* C9's case: tickers= k, O with an unknown category and all=true: the two tickers
\* are screened, the blank is gone, the category is ignored
C9_Witness ==
    /\ pc = "done"
    /\ request.method = "GET"
    /\ request.tickers = Some(<<"k", ",", " ", "O">>)
    /\ request.category = Some("bogus")
    /\ request.all = Some("true")
    /\ Val(response).status = 200
    /\ Tickers(Val(response).results) = << <<"K">>, <<"O">> >>

-----------------------------------------------------------------------------
(* Claims about the chains that are requested, under SpecFind. *)

\* the expirations of the chain requests that "by" issued for the ticker, in the
\* order of the requests, among the first n entries of reqlog
RECURSIVE ChainRequests(_, _)
ChainRequests(by, n) ==
    IF n = 0 THEN <<>>
    ELSE ChainRequests(by, n - 1)
         \o (IF reqlog[n].kind = "chain" /\ reqlog[n].by = by /\ reqlog[n].i = TickerNo
             THEN <<reqlog[n].exp>> ELSE <<>>)

FindChainRequests == ChainRequests("find", Len(reqlog))
FindRaised ==
    \E k \in Calls : reqlog[k].kind = "chain" /\ reqlog[k].by = "find" /\ reqlog[k].raised

\* the positions of the upstream list that hold a date in the window, and the n-th
InWindowAt == {j \in 1..Len(expirations) : InWindow(expirations[j])}
NthInWindow(n) ==
    CHOOSE j \in InWindowAt : Cardinality({m \in InWindowAt : m < j}) = n - 1
UpToTwo == IF Cardinality(InWindowAt) < 2 THEN Cardinality(InWindowAt) ELSE 2

\* C11: find_lst_put_opportunities requests at most two chains per call; the k-th
\* chain it requests is for the k-th expiration of the upstream list with
\* 30 <= dte <= 45, so none is outside the window and none is a third in-window
\* date; once it has returned without a pass raising, it has requested the first
\* two in-window expirations, or the only one, or none when the list is empty or
\* holds no in-window date, whether or not they yielded an opportunity.
C11_FirstTwoInWindow ==
    LET asked == FindChainRequests
    IN  /\ Len(asked) <= UpToTwo
        /\ \A k \in 1..Len(asked) :
              /\ InWindow(asked[k])
              /\ asked[k] = expirations[NthInWindow(k)]
        /\ (Returned /\ ~FindRaised) => Len(asked) = UpToTwo

\* C11's case: three in-window dates out of order with dates outside between
\* them; the chains of the first two in-window dates were requested in list order
\* and held no opportunity, and the call returned without asking for the third
C11_Witness ==
    /\ pc = "done"
    /\ expirations = <<46, 36, 29, 30, 45>>
    /\ FindChainRequests = <<36, 30>>
    /\ ~FindRaised
    /\ opportunities = <<>>

-----------------------------------------------------------------------------
(* Claims about get_stock_iv, under SpecIv: the states where it has returned *)
(* and find_lst_put_opportunities has not started (pc = "find_exps").        *)

IvChainRequests == ChainRequests("iv", Len(reqlog))

\* the contracts of the chain response get_stock_iv got
IvChainData ==
    LET k == CHOOSE j \in Calls : reqlog[j].kind = "chain" /\ reqlog[j].by = "iv"
        data == reqlog[k].data
    IN  IF data.kind = "list" THEN data.option
        ELSE IF data.kind = "single" THEN <<data.option>>
        ELSE <<>>

\* c is a put with a strike in [0.90*price, 1.10*price] and a mid_iv in [0.05, 2.0]
CountsForIv(c) ==
    /\ c.option_type = "put"
    /\ IsNum(c.strike)
    /\ 90 * Price <= 100 * Val(c.strike) /\ 100 * Val(c.strike) <= 110 * Price
    /\ ~IsNone(c.greeks)
    /\ IsNum(Val(c.greeks).mid_iv)
    /\ MinMidIV <= Val(Val(c.greeks).mid_iv) /\ Val(Val(c.greeks).mid_iv) <= MaxMidIV

\* the sum of the mid_iv of the contracts that count among the first n of cs
RECURSIVE IvSumTo(_, _)
IvSumTo(cs, n) ==
    IF n = 0 THEN 0
    ELSE IvSumTo(cs, n - 1)
         + (IF CountsForIv(cs[n]) THEN Val(Val(cs[n].greeks).mid_iv) ELSE 0)

\* C12: get_stock_iv requests no chain and returns None when no expiration has
\* 30 <= dte <= 45, and otherwise requests exactly one chain: that of an in-window
\* expiration no farther from 37 days than any other, standing in the upstream
\* list before every in-window expiration as close.  It returns None whenever no
\* put with a strike in [0.90*price, 1.10*price] has a mid_iv in [0.05, 2.0], and
\* a value it returns is the mean of the mid_iv of exactly those puts, as a
\* percentage rounded to 2 decimals: no call, out-of-band strike or out-of-bound
\* mid_iv is in the average.
C12_ClosestToMidpointOnly ==
    pc = "find_exps" =>
        LET asked == IvChainRequests
        IN  /\ Len(asked) = (IF InWindowAt = {} THEN 0 ELSE 1)
            /\ InWindowAt = {} => IsNone(iv)
            /\ asked # <<>> =>
                LET e == asked[1]
                    at == {j \in InWindowAt : expirations[j] = e}
                    cs == IvChainData
                    n == Cardinality({j \in 1..Len(cs) : CountsForIv(cs[j])})
                IN  /\ at # {}
                    /\ \A m \in InWindowAt :
                          /\ Abs(expirations[m] - MidDTE) >= Abs(e - MidDTE)
                          /\ (\A j \in at : m < j) =>
                                Abs(expirations[m] - MidDTE) > Abs(e - MidDTE)
                    /\ n = 0 => IsNone(iv)
                    /\ ~IsNone(iv) => n > 0 /\ Rounds(Val(iv), IvSumTo(cs, Len(cs)), n)

\* C12's case: 38 and 36 days are as close to 37 and 38 comes first, after a date
\* outside the window; its chain is the only one requested, and of its five
\* contracts the puts on the bounds of the band and of mid_iv make the average
C12_Witness ==
    /\ pc = "find_exps"
    /\ expirations = <<29, 38, 36>>
    /\ IvChainRequests = <<38>>
    /\ IvChainData = IvMixedChain.option
    /\ iv = Some(10250)

-----------------------------------------------------------------------------
(* Claims about a failure in find_lst_put_opportunities, under SpecFind. *)

\* the entries of the chain requests find_lst_put_opportunities issued for the ticker
FindChainCalls == {k \in Calls : reqlog[k].kind = "chain" /\ reqlog[k].by = "find"}

\* a and b hold the same opportunities, each as many times
SameOpportunities(a, b) ==
    /\ Len(a) = Len(b)
    /\ \A k \in 1..Len(a) : Count(a, a[k]) = Count(b, a[k])

\* C13: in every pass of the loop of find_lst_put_opportunities, when the chain
\* request fails in transport, status or JSON, or a contract field does not parse,
\* the call returns the empty list at once, whatever the earlier passes collected,
\* and screen_stock_for_lst returns qualified=false with the reason that no
\* delta 0.20-0.30 put was found; when the response only lacks the
\* options/option field, the pass adds nothing, drops nothing and does not fail;
\* and a call that returns without a failure returns all that the passes collected.
C13_FailureDiscardsAll ==
    [][pc = "find_chain" =>
        LET e == reqlog'[Len(reqlog')]
            returned == pc' # "find_chain"
            r == results'[Len(results')]
        IN  /\ Len(reqlog') = Len(reqlog) + 1
            /\ e.kind = "chain" /\ e.by = "find"
            /\ ~e.ok => e.raised
            /\ e.raised =>
                  /\ returned
                  /\ opportunities' = <<>>
                  /\ Len(results') = Len(results) + 1
                  /\ ~r.qualified
                  /\ r.reason = "No delta 0.20-0.30 puts found in 30-45 DTE range"
                  /\ ~Has(r, "best_opportunity") /\ ~Has(r, "all_opportunities")
            /\ e.skipped => e.ok /\ ~e.raised /\ collected' = collected
            /\ ~e.raised =>
                  /\ Len(collected') >= Len(collected)
                  /\ SubSeq(collected', 1, Len(collected)) = collected
                  /\ returned => SameOpportunities(opportunities', collected')
    ]_vars

\* C13's case: the chain of the first expiration gave an opportunity, the chain of
\* the second arrived but a field of a contract did not parse; the call returned
\* the empty list and the ticker is reported without qualifying puts
C13_Witness ==
    /\ pc = "done"
    /\ collected # <<>>
    /\ \E j, k \in FindChainCalls :
        /\ j < k
        /\ reqlog[j].ok /\ ~reqlog[j].raised
        /\ reqlog[k].ok /\ ~reqlog[k].skipped /\ reqlog[k].raised
    /\ opportunities = <<>>
    /\ results[1].reason = "No delta 0.20-0.30 puts found in 30-45 DTE range"

=============================================================================
